---- MODULE Spec2Model ----
(***************************************************************************)
(* The on-off resource service of lib/os/onoff.c (struct onoff_service,    *)
(* include/sys/onoff.h) as a state machine.                                *)
(*                                                                         *)
(* Every function of onoff.c takes the service spinlock, updates the       *)
(* service, drops the lock and only then invokes a transition function or  *)
(* notifies clients.  The part under the lock is one atomic step here; the *)
(* calls made after the unlock are queued, in program order, as the        *)
(* remaining work of the executing context and are taken one step at a     *)
(* time, so that other contexts interleave exactly where the lock is not   *)
(* held.                                                                   *)
(*                                                                         *)
(* Callers keep the ownership protocol of struct onoff_client: a client is *)
(* passed to request/release/reset only while the service holds no         *)
(* reference to it (SpecOwned alone has callers that do not).  Client      *)
(* callbacks do not call back into the service.                            *)
(* A failed __ASSERT_NO_MSG is recorded in last.asrt and execution goes on *)
(* as in a build without CONFIG_ASSERT.                                    *)
(***************************************************************************)
EXTENDS Integers, Sequences, FiniteSets, TLC

----------------------------------------------------------------------------
(* Bounds of the model *)

\* API calls (request, release, reset, cancel) made in one behaviour
MaxCalls == 4

\* the same for the service without capability flags, explored deeper
MaxCallsPlain == 6

\* API calls made on a service whose transitions never fail
MaxCallsOk == 7

\* API calls made by callers that submit a client the service still owns
MaxCallsOwned == 3

\* API calls made one after the other on a service with synchronous transitions
MaxCallsSync == 6

----------------------------------------------------------------------------
(* Program constants *)

EIO == 5
EAGAIN == 11
EBUSY == 16
EINVAL == 22
EALREADY == 120
ENOTSUP == 134
ECANCELED == 140
EWOULDBLOCK == EAGAIN

UINT16_MAX == 65535
U16(n) == n % (UINT16_MAX + 1)

NULL == "NULL"

ONOFF_SERVICE_START_WAITS == "START_WAITS"
ONOFF_SERVICE_STOP_WAITS == "STOP_WAITS"
ONOFF_SERVICE_RESET_WAITS == "RESET_WAITS"
ONOFF_SERVICE_HAS_ERROR == "HAS_ERROR"

SERVICE_CONFIG_FLAGS ==
    {ONOFF_SERVICE_START_WAITS, ONOFF_SERVICE_STOP_WAITS, ONOFF_SERVICE_RESET_WAITS}

SERVICE_STATE_OFF == {}
SERVICE_STATE_ON == {"ON"}
SERVICE_STATE_TRANSITION == {"TRANSITION"}
SERVICE_STATE_TO_ON == SERVICE_STATE_TRANSITION \cup SERVICE_STATE_ON
SERVICE_STATE_TO_OFF == SERVICE_STATE_TRANSITION \cup SERVICE_STATE_OFF
SERVICE_STATE_MASK == SERVICE_STATE_ON \cup SERVICE_STATE_TRANSITION

set_service_state(f, state) ==
    (f \ SERVICE_STATE_MASK) \cup (state \cap SERVICE_STATE_MASK)

ONOFF_CLIENT_NOTIFY_NO_WAIT == "NO_WAIT"
ONOFF_CLIENT_NOTIFY_SIGNAL == "SIGNAL"
ONOFF_CLIENT_NOTIFY_CALLBACK == "CALLBACK"

----------------------------------------------------------------------------
(* The environment *)

\* three client objects, one per notification mode
Clients == {"cb", "sig", "nw"}

\* cli->flags as set by onoff_client_init_callback / _signal / _no_wait
ClientMode(c) ==
    CASE c = "cb"  -> ONOFF_CLIENT_NOTIFY_CALLBACK
      [] c = "sig" -> ONOFF_CLIENT_NOTIFY_SIGNAL
      [] c = "nw"  -> ONOFF_CLIENT_NOTIFY_NO_WAIT

\* execution contexts: a thread, and an interrupt handler that preempts it
\* or runs on another CPU
Contexts == {"thread", "isr"}

k_is_in_isr(x) == x = "isr"

\* results a transition function passes to its notify callback
TransitResults == {-EIO, 0}

Transitions == {"start", "stop", "reset"}

----------------------------------------------------------------------------
(* State *)

VARIABLES
    flags,      \* srv->flags: capability flags, HAS_ERROR and the state bits
    refs,       \* srv->refs (u16_t)
    clients,    \* srv->clients: the list of waiting clients, head first
    releaser,   \* srv->releaser, NULL or a client
    has_reset,  \* srv->reset != NULL
    result,     \* cli->result of every client
    work,       \* per context: the calls still to make after the unlock
    nowait_call,\* per context: it is inside an API call made with a no-wait client
    inflight,   \* per transition function: invocations that will notify later
    pend,       \* per client: the accepted operation not yet notified
    held,       \* requests notified as successful minus releases completed
    cancelled,  \* clients whose request was cancelled during the pending start
    budget,     \* API calls that may still be made
    last        \* the step just taken

vars == <<flags, refs, clients, releaser, has_reset, result, work, nowait_call,
          inflight, pend, held, cancelled, budget, last>>

srv == <<flags, refs, clients, releaser>>

\* One entry of work: a call made without the lock held.
\*   notify: notify_one(srv, cli, res)
\*   call:   srv->start / srv->stop / srv->reset (srv, onoff_*_notify)
\*   locked: the locked part of onoff_cancel, after validate_args
Op(k, fn, cli, res) == [k |-> k, fn |-> fn, cli |-> cli, res |-> res]
OpNotify(cli, res) == Op("notify", "", cli, res)
OpCall(fn) == Op("call", fn, NULL, 0)
OpCancel(cli) == Op("locked", "cancel", cli, 0)

\* The step just taken: the function, its context, the client and value
\* (return value, or result notified) it concerns, whether every assertion it
\* evaluated held, and whether a notified client had an operation pending.
Event(op, x, cli, val, asrt, owned) ==
    [op |-> op, ctx |-> x, cli |-> cli, val |-> val, asrt |-> asrt,
     owned |-> owned]

State == flags \cap SERVICE_STATE_MASK
HasError == ONOFF_SERVICE_HAS_ERROR \in flags

\* ONOFF_SERVICE_INITIALIZER: everything but the functions and flags is zero
Init ==
    /\ flags \in SUBSET SERVICE_CONFIG_FLAGS
    /\ refs = 0
    /\ clients = <<>>
    /\ releaser = NULL
    /\ has_reset \in BOOLEAN
    /\ result = [c \in Clients |-> 0]
    /\ work = [x \in Contexts |-> <<>>]
    /\ nowait_call = [x \in Contexts |-> FALSE]
    /\ inflight = [t \in Transitions |-> 0]
    /\ pend = [c \in Clients |-> "none"]
    /\ held = 0
    /\ cancelled = {}
    /\ budget = MaxCalls
    /\ last = Event("init", "thread", NULL, 0, TRUE, TRUE)

----------------------------------------------------------------------------
(* Helpers *)

NoWait(c) == ClientMode(c) = ONOFF_CLIENT_NOTIFY_NO_WAIT

\* a notify_all that takes the clients from the tail of the list
NotifyAll_from_tail(list, res) ==
    [i \in 1..Len(list) |-> OpNotify(list[Len(list) + 1 - i], res)]

\* notify_all: the clients of the list are notified in list order
NotifyAll(list, res) == [i \in 1..Len(list) |-> OpNotify(list[i], res)]

\* sys_slist_find_and_remove: drops the first occurrence of the node
RECURSIVE find_and_remove(_, _)
find_and_remove(list, c) ==
    IF list = <<>> THEN <<>>
    ELSE IF Head(list) = c THEN Tail(list)
    ELSE <<Head(list)>> \o find_and_remove(Tail(list), c)

InList(list, c) == \E i \in 1..Len(list) : list[i] = c

\* the context x, inside the API call made with client c, goes on with the
\* calls w; with nothing left to do the call returns
SetCall(x, c, w) ==
    /\ work' = [work EXCEPT ![x] = w]
    /\ nowait_call' = [nowait_call EXCEPT ![x] = w # <<>> /\ NoWait(c)]

\* the context x goes on with the calls w; a completion delivered to an idle
\* context is inside no API call
SetWork(x, w) ==
    /\ work' = [work EXCEPT ![x] = w]
    /\ nowait_call' = [nowait_call EXCEPT ![x] = w # <<>> /\ @]

Decision(rv, add_client, start, notify, f, asrt) ==
    [rv |-> rv, add_client |-> add_client, start |-> start, notify |-> notify,
     flags |-> f, asrt |-> asrt]

\* a rejection that nevertheless queues the client
Reject_queues_client(rv, f) == Decision(rv, TRUE, FALSE, FALSE, f, TRUE)

\* the call is rejected: nothing is queued, started or notified
Reject(rv, f) == Decision(rv, FALSE, FALSE, FALSE, f, TRUE)

----------------------------------------------------------------------------
(* onoff_request *)

\* a request that starts an Off service whatever the caller may wait for
request_locked_start_never_waits(f, r, rel, no_wait, in_isr) ==
    IF ONOFF_SERVICE_HAS_ERROR \in f THEN Reject(-EIO, f)
    ELSE IF r = UINT16_MAX THEN Reject(-EAGAIN, f)
    ELSE LET state == f \cap SERVICE_STATE_MASK IN
        CASE state = SERVICE_STATE_TO_OFF ->
                IF no_wait THEN Reject(-EWOULDBLOCK, f)
                ELSE Decision(3, TRUE, FALSE, FALSE, f, rel # NULL)
          [] state = SERVICE_STATE_OFF ->
                Decision(2, TRUE, TRUE, FALSE,
                         set_service_state(f, SERVICE_STATE_TO_ON), r = 0)
          [] state = SERVICE_STATE_TO_ON ->
                IF no_wait THEN Reject(-EWOULDBLOCK, f)
                ELSE Decision(1, TRUE, FALSE, FALSE, f, TRUE)
          [] state = SERVICE_STATE_ON ->
                Decision(0, FALSE, FALSE, TRUE, f, TRUE)

\* a request that does not look at the error flag
request_locked_ignores_error(f, r, rel, no_wait, in_isr) ==
    IF r = UINT16_MAX THEN Reject(-EAGAIN, f)
    ELSE LET state == f \cap SERVICE_STATE_MASK IN
        CASE state = SERVICE_STATE_TO_OFF ->
                IF no_wait THEN Reject(-EWOULDBLOCK, f)
                ELSE Decision(3, TRUE, FALSE, FALSE, f, rel # NULL)
          [] state = SERVICE_STATE_OFF ->
                IF (no_wait \/ in_isr) /\ ONOFF_SERVICE_START_WAITS \in f
                THEN Reject(-EWOULDBLOCK, f)
                ELSE Decision(2, TRUE, TRUE, FALSE,
                              set_service_state(f, SERVICE_STATE_TO_ON), r = 0)
          [] state = SERVICE_STATE_TO_ON ->
                IF no_wait THEN Reject(-EWOULDBLOCK, f)
                ELSE Decision(1, TRUE, FALSE, FALSE, f, TRUE)
          [] state = SERVICE_STATE_ON ->
                Decision(0, FALSE, FALSE, TRUE, f, TRUE)

\* a request that is granted at once also while the service is starting
request_locked_grants_while_starting(f, r, rel, no_wait, in_isr) ==
    IF ONOFF_SERVICE_HAS_ERROR \in f THEN Reject(-EIO, f)
    ELSE IF r = UINT16_MAX THEN Reject(-EAGAIN, f)
    ELSE LET state == f \cap SERVICE_STATE_MASK IN
        CASE state = SERVICE_STATE_TO_OFF ->
                IF no_wait THEN Reject(-EWOULDBLOCK, f)
                ELSE Decision(3, TRUE, FALSE, FALSE, f, rel # NULL)
          [] state = SERVICE_STATE_OFF ->
                IF (no_wait \/ in_isr) /\ ONOFF_SERVICE_START_WAITS \in f
                THEN Reject(-EWOULDBLOCK, f)
                ELSE Decision(2, TRUE, TRUE, FALSE,
                              set_service_state(f, SERVICE_STATE_TO_ON), r = 0)
          [] state \in {SERVICE_STATE_TO_ON, SERVICE_STATE_ON} ->
                Decision(0, FALSE, FALSE, TRUE, f, TRUE)

\* the part of z_impl_onoff_request under the lock
request_locked(f, r, rel, no_wait, in_isr) ==
    IF ONOFF_SERVICE_HAS_ERROR \in f THEN Reject(-EIO, f)
    ELSE IF r = UINT16_MAX THEN Reject(-EAGAIN, f)
    ELSE LET state == f \cap SERVICE_STATE_MASK IN
        CASE state = SERVICE_STATE_TO_OFF ->
                IF no_wait THEN Reject(-EWOULDBLOCK, f)
                ELSE Decision(3, TRUE, FALSE, FALSE, f, rel # NULL)
          [] state = SERVICE_STATE_OFF ->
                IF (no_wait \/ in_isr) /\ ONOFF_SERVICE_START_WAITS \in f
                THEN Reject(-EWOULDBLOCK, f)
                ELSE Decision(2, TRUE, TRUE, FALSE,
                              set_service_state(f, SERVICE_STATE_TO_ON), r = 0)
          [] state = SERVICE_STATE_TO_ON ->
                IF no_wait THEN Reject(-EWOULDBLOCK, f)
                ELSE Decision(1, TRUE, FALSE, FALSE, f, TRUE)
          [] state = SERVICE_STATE_ON ->
                Decision(0, FALSE, FALSE, TRUE, f, TRUE)

Request(x, c) ==
    /\ work[x] = <<>>
    /\ budget > 0
    /\ pend[c] = "none"
    /\ LET d == request_locked(flags, refs, releaser, NoWait(c), k_is_in_isr(x))
           w == IF d.start THEN <<OpCall("start")>>
                ELSE IF d.notify THEN <<OpNotify(c, 0)>>
                ELSE <<>>
       IN /\ flags' = d.flags
          /\ clients' = IF d.add_client THEN Append(clients, c) ELSE clients
          /\ refs' = IF ~d.add_client /\ d.notify THEN U16(refs + 1) ELSE refs
          /\ result' = [result EXCEPT ![c] = 0]
          /\ pend' = [pend EXCEPT ![c] = IF d.rv >= 0 THEN "request" ELSE "none"]
          /\ cancelled' = IF d.rv >= 0 THEN cancelled \ {c} ELSE cancelled
          /\ SetCall(x, c, w)
          /\ last' = Event("request", x, c, d.rv, d.asrt, TRUE)
    /\ budget' = budget - 1
    /\ UNCHANGED <<releaser, has_reset, inflight, held>>

----------------------------------------------------------------------------
(* onoff_release *)

\* a release that queues behind a start in progress instead of refusing
release_locked_waits_for_start(f, r, no_wait, in_isr) ==
    IF ONOFF_SERVICE_HAS_ERROR \in f THEN Reject(-EIO, f)
    ELSE LET state == f \cap SERVICE_STATE_MASK IN
        CASE state = SERVICE_STATE_ON ->
                IF r > 1 THEN Decision(1, FALSE, FALSE, TRUE, f, TRUE)
                ELSE IF (no_wait \/ in_isr) /\ ONOFF_SERVICE_STOP_WAITS \in f
                THEN Reject(-EWOULDBLOCK, f)
                ELSE Decision(2, FALSE, TRUE, FALSE,
                              set_service_state(f, SERVICE_STATE_TO_OFF), TRUE)
          [] state = SERVICE_STATE_TO_ON -> Decision(1, FALSE, FALSE, TRUE, f, TRUE)
          [] state \in {SERVICE_STATE_OFF, SERVICE_STATE_TO_OFF} ->
                Reject(-EALREADY, f)

\* a release that drops the last reference without stopping the service
release_locked_never_stops(f, r, no_wait, in_isr) ==
    IF ONOFF_SERVICE_HAS_ERROR \in f THEN Reject(-EIO, f)
    ELSE LET state == f \cap SERVICE_STATE_MASK IN
        CASE state = SERVICE_STATE_ON ->
                IF r > 0 THEN Decision(1, FALSE, FALSE, TRUE, f, TRUE)
                ELSE Reject(-EALREADY, f)
          [] state = SERVICE_STATE_TO_ON -> Reject(-EBUSY, f)
          [] state \in {SERVICE_STATE_OFF, SERVICE_STATE_TO_OFF} ->
                Reject(-EALREADY, f)

\* a release that stops the service whoever the caller is
release_locked_stops_from_any_caller(f, r, no_wait, in_isr) ==
    IF ONOFF_SERVICE_HAS_ERROR \in f THEN Reject(-EIO, f)
    ELSE LET state == f \cap SERVICE_STATE_MASK IN
        CASE state = SERVICE_STATE_ON ->
                IF r > 1 THEN Decision(1, FALSE, FALSE, TRUE, f, TRUE)
                ELSE Decision(2, FALSE, TRUE, FALSE,
                              set_service_state(f, SERVICE_STATE_TO_OFF), TRUE)
          [] state = SERVICE_STATE_TO_ON -> Reject(-EBUSY, f)
          [] state \in {SERVICE_STATE_OFF, SERVICE_STATE_TO_OFF} ->
                Reject(-EALREADY, f)

\* the part of z_impl_onoff_release under the lock; start stands for stop
release_locked(f, r, no_wait, in_isr) ==
    IF ONOFF_SERVICE_HAS_ERROR \in f THEN Reject(-EIO, f)
    ELSE LET state == f \cap SERVICE_STATE_MASK IN
        CASE state = SERVICE_STATE_ON ->
                IF r > 1 THEN Decision(1, FALSE, FALSE, TRUE, f, TRUE)
                ELSE IF (no_wait \/ in_isr) /\ ONOFF_SERVICE_STOP_WAITS \in f
                THEN Reject(-EWOULDBLOCK, f)
                ELSE Decision(2, FALSE, TRUE, FALSE,
                              set_service_state(f, SERVICE_STATE_TO_OFF), TRUE)
          [] state = SERVICE_STATE_TO_ON -> Reject(-EBUSY, f)
          [] state \in {SERVICE_STATE_OFF, SERVICE_STATE_TO_OFF} ->
                Reject(-EALREADY, f)

Release(x, c) ==
    /\ work[x] = <<>>
    /\ budget > 0
    /\ pend[c] = "none"
    /\ LET d == release_locked(flags, refs, NoWait(c), k_is_in_isr(x))
           w == IF d.start THEN <<OpCall("stop")>>
                ELSE IF d.notify THEN <<OpNotify(c, 0)>>
                ELSE <<>>
       IN /\ flags' = d.flags
          /\ releaser' = IF d.start THEN c ELSE releaser
          /\ refs' = IF d.notify THEN U16(refs - 1) ELSE refs
          /\ result' = [result EXCEPT ![c] = 0]
          /\ pend' = [pend EXCEPT ![c] = IF d.rv >= 0 THEN "release" ELSE "none"]
          /\ SetCall(x, c, w)
          /\ last' = Event("release", x, c, d.rv, d.asrt, TRUE)
    /\ budget' = budget - 1
    /\ UNCHANGED <<clients, has_reset, inflight, held, cancelled>>

----------------------------------------------------------------------------
(* Transition completions *)

Outcome(f, r, cl, rel, post, asrt) ==
    [flags |-> f, refs |-> r, clients |-> cl, releaser |-> rel, post |-> post,
     asrt |-> asrt]

\* start completion: stop the service again when nobody holds it
start_wants_stop(r) == r = 0

\* start completion: the stop cannot be made, or the context forbids waiting
start_blocked(f, stop, in_isr) ==
    (stop \/ in_isr) /\ ONOFF_SERVICE_STOP_WAITS \in f

onoff_start_notify(f, r, cl, rel, res, in_isr) ==
    IF res < 0
    THEN Outcome((f \ SERVICE_STATE_TRANSITION) \cup {ONOFF_SERVICE_HAS_ERROR},
                 r, <<>>, rel, NotifyAll(cl, res), rel = NULL)
    ELSE LET r1 == U16(r + Len(cl))
             f1 == set_service_state(f, SERVICE_STATE_ON)
             stop == start_wants_stop(r1)
             blocked == start_blocked(f1, stop, in_isr)
             f2 == IF blocked THEN f1 \cup {ONOFF_SERVICE_HAS_ERROR} ELSE f1
         IN Outcome(f2, r1, <<>>, rel,
                    NotifyAll(cl, res)
                        \o (IF stop /\ ~blocked THEN <<OpCall("stop")>> ELSE <<>>),
                    rel = NULL)

\* stop completion: what is done with the requests queued during the stop
stop_restart(f, cl, in_isr) ==
    IF cl = <<>> THEN "off"
    ELSE IF in_isr /\ ONOFF_SERVICE_START_WAITS \in f THEN "wouldblock"
    ELSE "start"

\* onoff_stop_notify that leaves the releaser's reference in place when the
\* stop failed
onoff_stop_notify_keeps_reference(f, r, cl, rel, res, in_isr) ==
    LET how == IF res < 0 THEN "error" ELSE stop_restart(f, cl, in_isr)
        f1 == CASE how = "error" ->
                    (f \ SERVICE_STATE_TRANSITION) \cup {ONOFF_SERVICE_HAS_ERROR}
                [] how = "start" -> set_service_state(f, SERVICE_STATE_TO_ON)
                [] OTHER -> set_service_state(f, SERVICE_STATE_OFF)
        notify_clients == how \in {"error", "wouldblock"}
        client_res == IF how = "wouldblock" THEN -EWOULDBLOCK ELSE res
        r1 == IF rel # NULL /\ res >= 0 THEN U16(r - 1) ELSE r
    IN Outcome(f1, r1, IF notify_clients THEN <<>> ELSE cl, NULL,
               (IF rel # NULL THEN <<OpNotify(rel, res)>> ELSE <<>>)
                   \o (IF notify_clients THEN NotifyAll(cl, client_res)
                       ELSE IF how = "start" THEN <<OpCall("start")>>
                       ELSE <<>>),
               r1 = 0)

onoff_stop_notify(f, r, cl, rel, res, in_isr) ==
    LET how == IF res < 0 THEN "error" ELSE stop_restart(f, cl, in_isr)
        f1 == CASE how = "error" ->
                    (f \ SERVICE_STATE_TRANSITION) \cup {ONOFF_SERVICE_HAS_ERROR}
                [] how = "start" -> set_service_state(f, SERVICE_STATE_TO_ON)
                [] OTHER -> set_service_state(f, SERVICE_STATE_OFF)
        notify_clients == how \in {"error", "wouldblock"}
        client_res == IF how = "wouldblock" THEN -EWOULDBLOCK ELSE res
        r1 == IF rel # NULL THEN U16(r - 1) ELSE r
    IN Outcome(f1, r1, IF notify_clients THEN <<>> ELSE cl, NULL,
               (IF rel # NULL THEN <<OpNotify(rel, res)>> ELSE <<>>)
                   \o (IF notify_clients THEN NotifyAll(cl, client_res)
                       ELSE IF how = "start" THEN <<OpCall("start")>>
                       ELSE <<>>),
               r1 = 0)

onoff_reset_notify(f, r, cl, rel, res, in_isr) ==
    IF res < 0
    THEN Outcome(f \ SERVICE_STATE_TRANSITION, r, <<>>, rel, NotifyAll(cl, res), TRUE)
    ELSE Outcome(f \cap SERVICE_CONFIG_FLAGS, 0, <<>>, rel, NotifyAll(cl, res), r = 0)

notify_fn(fn, f, r, cl, rel, res, in_isr) ==
    CASE fn = "start" -> onoff_start_notify(f, r, cl, rel, res, in_isr)
      [] fn = "stop"  -> onoff_stop_notify(f, r, cl, rel, res, in_isr)
      [] fn = "reset" -> onoff_reset_notify(f, r, cl, rel, res, in_isr)

\* context x runs onoff_<fn>_notify(srv, res) and then goes on with rest
RunNotify(x, fn, res, rest) ==
    LET o == notify_fn(fn, flags, refs, clients, releaser, res, k_is_in_isr(x))
        w == o.post \o rest
    IN /\ flags' = o.flags
       /\ refs' = o.refs
       /\ clients' = o.clients
       /\ releaser' = o.releaser
       /\ cancelled' = IF fn = "start" THEN {} ELSE cancelled
       /\ SetWork(x, w)
       /\ last' = Event(fn \o "_notify", x, NULL, res, o.asrt, TRUE)

\* an asynchronous transition function notifies, from any context
Complete(x, fn, res) ==
    /\ work[x] = <<>>
    /\ inflight[fn] > 0
    /\ inflight' = [inflight EXCEPT ![fn] = @ - 1]
    /\ RunNotify(x, fn, res, <<>>)
    /\ UNCHANGED <<has_reset, result, pend, held, budget>>

\* srv->start / srv->stop / srv->reset is called and keeps the notify function
\* to call it later
InvokeAsync(x) ==
    /\ work[x] # <<>>
    /\ Head(work[x]).k = "call"
    /\ inflight' = [inflight EXCEPT ![Head(work[x]).fn] = @ + 1]
    /\ SetWork(x, Tail(work[x]))
    /\ last' = Event("call_" \o Head(work[x]).fn, x, NULL, 0, TRUE, TRUE)
    /\ UNCHANGED <<flags, refs, clients, releaser, has_reset, result, pend, held,
                   cancelled, budget>>

\* srv->start / srv->stop / srv->reset is called and calls the notify function
\* before it returns
InvokeSync(x, res) ==
    /\ work[x] # <<>>
    /\ Head(work[x]).k = "call"
    /\ RunNotify(x, Head(work[x]).fn, res, Tail(work[x]))
    /\ UNCHANGED <<has_reset, result, inflight, pend, held, budget>>

\* a notify_one that counts the reference of a granted request itself, after
\* the lock was dropped
Notify_counts_reference(x) ==
    /\ work[x] # <<>>
    /\ Head(work[x]).k = "notify"
    /\ LET c == Head(work[x]).cli
           res == Head(work[x]).res
           w == Tail(work[x])
       IN /\ result' = [result EXCEPT ![c] = res]
          /\ pend' = [pend EXCEPT ![c] = "none"]
          /\ held' = CASE pend[c] = "request" /\ res >= 0 -> held + 1
                       [] pend[c] = "release" /\ res >= 0 -> held - 1
                       [] OTHER -> held
          /\ refs' = IF pend[c] = "request" /\ res >= 0 THEN U16(refs + 1) ELSE refs
          /\ SetWork(x, w)
          /\ last' = Event("notify", x, c, res, TRUE, pend[c] # "none")
    /\ UNCHANGED <<flags, clients, releaser, has_reset, inflight, cancelled,
                   budget>>

\* notify_one: the result is stored and the client told; control of the client
\* returns to the caller
Notify(x) ==
    /\ work[x] # <<>>
    /\ Head(work[x]).k = "notify"
    /\ LET c == Head(work[x]).cli
           res == Head(work[x]).res
           w == Tail(work[x])
       IN /\ result' = [result EXCEPT ![c] = res]
          /\ pend' = [pend EXCEPT ![c] = "none"]
          /\ held' = CASE pend[c] = "request" /\ res >= 0 -> held + 1
                       [] pend[c] = "release" /\ res >= 0 -> held - 1
                       [] OTHER -> held
          /\ SetWork(x, w)
          /\ last' = Event("notify", x, c, res, TRUE, pend[c] # "none")
    /\ UNCHANGED <<flags, refs, clients, releaser, has_reset, inflight, cancelled,
                   budget>>

----------------------------------------------------------------------------
(* onoff_service_reset *)

\* a reset that is started whether or not the service has recorded an error
reset_locked_ignores_error(f) ==
    IF f \cap SERVICE_STATE_TRANSITION = {}
    THEN Decision(0, TRUE, TRUE, FALSE, f \cup SERVICE_STATE_TRANSITION, TRUE)
    ELSE Decision(0, TRUE, FALSE, FALSE, f, TRUE)

\* the part of z_impl_onoff_service_reset under the lock; start stands for reset
reset_locked(f) ==
    IF ONOFF_SERVICE_HAS_ERROR \notin f THEN Reject(-EINVAL, f)
    ELSE IF f \cap SERVICE_STATE_TRANSITION = {}
    THEN Decision(0, TRUE, TRUE, FALSE, f \cup SERVICE_STATE_TRANSITION, TRUE)
    ELSE Decision(0, TRUE, FALSE, FALSE, f, TRUE)

\* the checks of z_impl_onoff_service_reset made before the lock is taken
reset_precheck(f, reset_set, no_wait, in_isr) ==
    IF ~reset_set THEN -ENOTSUP
    ELSE IF (no_wait \/ in_isr) /\ ONOFF_SERVICE_RESET_WAITS \in f THEN -EWOULDBLOCK
    ELSE 0

Reset(x, c) ==
    /\ work[x] = <<>>
    /\ budget > 0
    /\ pend[c] = "none"
    /\ LET pre == reset_precheck(flags, has_reset, NoWait(c), k_is_in_isr(x))
           d == IF pre < 0 THEN Reject(pre, flags) ELSE reset_locked(flags)
           w == IF d.start THEN <<OpCall("reset")>> ELSE <<>>
       IN /\ flags' = d.flags
          /\ clients' = IF d.add_client THEN Append(clients, c) ELSE clients
          /\ result' = IF pre = -ENOTSUP THEN result ELSE [result EXCEPT ![c] = 0]
          /\ pend' = [pend EXCEPT ![c] = IF d.rv >= 0 THEN "reset" ELSE "none"]
          /\ SetCall(x, c, w)
          /\ last' = Event("reset", x, c, d.rv, d.asrt, TRUE)
    /\ budget' = budget - 1
    /\ UNCHANGED <<refs, releaser, has_reset, inflight, held, cancelled>>

----------------------------------------------------------------------------
(* onoff_cancel *)

\* z_impl_onoff_cancel up to the lock: validate_args clears cli->result.
\* The caller cannot know whether the operation of its client has completed
\* in the meantime, so a cancel may come for any client at any time.
Cancel(x, c) ==
    /\ work[x] = <<>>
    /\ budget > 0
    /\ result' = [result EXCEPT ![c] = 0]
    /\ SetCall(x, c, <<OpCancel(c)>>)
    /\ last' = Event("cancel_enter", x, c, 0, TRUE, TRUE)
    /\ budget' = budget - 1
    /\ UNCHANGED <<flags, refs, clients, releaser, has_reset, inflight, pend, held,
                   cancelled>>

\* a cancel that leaves the client of a request in the list
cancel_locked_keeps_client(r, cl, rel, c) ==
    IF InList(cl, c)
    THEN [rv |-> 0, refs |-> r, clients |-> cl, releaser |-> rel, asrt |-> TRUE]
    ELSE IF rel = c
    THEN [rv |-> 0, refs |-> 0, clients |-> cl, releaser |-> NULL, asrt |-> r = 1]
    ELSE [rv |-> -EALREADY, refs |-> r, clients |-> cl, releaser |-> rel,
          asrt |-> TRUE]

\* the part of z_impl_onoff_cancel under the lock
cancel_locked(r, cl, rel, c) ==
    IF InList(cl, c)
    THEN [rv |-> 0, refs |-> r, clients |-> find_and_remove(cl, c),
          releaser |-> rel, asrt |-> TRUE]
    ELSE IF rel = c
    THEN [rv |-> 0, refs |-> 0, clients |-> cl, releaser |-> NULL, asrt |-> r = 1]
    ELSE [rv |-> -EALREADY, refs |-> r, clients |-> cl, releaser |-> rel,
          asrt |-> TRUE]

\* a cancel that turns the service off when it removes the last waiter
CancelLocked_turns_off(x) ==
    /\ work[x] # <<>>
    /\ Head(work[x]).k = "locked"
    /\ LET c == Head(work[x]).cli
           d == cancel_locked(refs, clients, releaser, c)
           w == IF d.rv = 0 THEN <<OpNotify(c, -ECANCELED)>> ELSE <<>>
       IN /\ refs' = d.refs
          /\ clients' = d.clients
          /\ releaser' = d.releaser
          /\ flags' = IF InList(clients, c) /\ d.clients = <<>>
                      THEN set_service_state(flags, SERVICE_STATE_OFF) ELSE flags
          /\ cancelled' = IF InList(clients, c)
                                /\ flags \cap SERVICE_STATE_MASK = SERVICE_STATE_TO_ON
                                /\ ONOFF_SERVICE_HAS_ERROR \notin flags
                           THEN cancelled \cup {c} ELSE cancelled
          /\ SetWork(x, w)
          /\ last' = Event("cancel", x, c, d.rv, d.asrt, TRUE)
    /\ UNCHANGED <<has_reset, result, inflight, pend, held, budget>>

CancelLocked(x) ==
    /\ work[x] # <<>>
    /\ Head(work[x]).k = "locked"
    /\ LET c == Head(work[x]).cli
           d == cancel_locked(refs, clients, releaser, c)
           w == IF d.rv = 0 THEN <<OpNotify(c, -ECANCELED)>> ELSE <<>>
       IN /\ refs' = d.refs
          /\ clients' = d.clients
          /\ releaser' = d.releaser
          /\ cancelled' = IF InList(clients, c)
                                /\ flags \cap SERVICE_STATE_MASK = SERVICE_STATE_TO_ON
                                /\ ONOFF_SERVICE_HAS_ERROR \notin flags
                           THEN cancelled \cup {c} ELSE cancelled
          /\ SetWork(x, w)
          /\ last' = Event("cancel", x, c, d.rv, d.asrt, TRUE)
    /\ UNCHANGED <<flags, has_reset, result, inflight, pend, held, budget>>

----------------------------------------------------------------------------
(* Specification *)

Next ==
    \/ \E x \in Contexts, c \in Clients : Request(x, c)
    \/ \E x \in Contexts, c \in Clients : Release(x, c)
    \/ \E x \in Contexts, c \in Clients : Reset(x, c)
    \/ \E x \in Contexts, c \in Clients : Cancel(x, c)
    \/ \E x \in Contexts : CancelLocked(x)
    \/ \E x \in Contexts, fn \in Transitions, res \in TransitResults :
          Complete(x, fn, res)
    \/ \E x \in Contexts : InvokeAsync(x)
    \/ \E x \in Contexts, res \in TransitResults : InvokeSync(x, res)
    \/ \E x \in Contexts : Notify(x)

Spec == Init /\ [][Next]_vars

\* onoff_service_init(srv, start, stop, reset, 0)
InitPlain ==
    /\ flags = {}
    /\ refs = 0
    /\ clients = <<>>
    /\ releaser = NULL
    /\ has_reset = TRUE
    /\ result = [c \in Clients |-> 0]
    /\ work = [x \in Contexts |-> <<>>]
    /\ nowait_call = [x \in Contexts |-> FALSE]
    /\ inflight = [t \in Transitions |-> 0]
    /\ pend = [c \in Clients |-> "none"]
    /\ held = 0
    /\ cancelled = {}
    /\ budget = MaxCallsPlain
    /\ last = Event("init", "thread", NULL, 0, TRUE, TRUE)

SpecPlain == InitPlain /\ [][Next]_vars

\* a service without flags and without reset whose transitions never fail
InitOk ==
    /\ flags = {}
    /\ refs = 0
    /\ clients = <<>>
    /\ releaser = NULL
    /\ has_reset = FALSE
    /\ result = [c \in Clients |-> 0]
    /\ work = [x \in Contexts |-> <<>>]
    /\ nowait_call = [x \in Contexts |-> FALSE]
    /\ inflight = [t \in Transitions |-> 0]
    /\ pend = [c \in Clients |-> "none"]
    /\ held = 0
    /\ cancelled = {}
    /\ budget = MaxCallsOk
    /\ last = Event("init", "thread", NULL, 0, TRUE, TRUE)

\* request, release and cancel calls, with transitions that never fail
NextOk ==
    \/ \E x \in Contexts, c \in Clients : Request(x, c)
    \/ \E x \in Contexts, c \in Clients : Release(x, c)
    \/ \E x \in Contexts, c \in Clients : Cancel(x, c)
    \/ \E x \in Contexts : CancelLocked(x)
    \/ \E x \in Contexts, fn \in Transitions : Complete(x, fn, 0)
    \/ \E x \in Contexts : InvokeAsync(x)
    \/ \E x \in Contexts : InvokeSync(x, 0)
    \/ \E x \in Contexts : Notify(x)

SpecOk == InitOk /\ [][NextOk]_vars

\* request and release calls only, with transitions that never fail
NextRR ==
    \/ \E x \in Contexts, c \in Clients : Request(x, c)
    \/ \E x \in Contexts, c \in Clients : Release(x, c)
    \/ \E x \in Contexts, fn \in Transitions : Complete(x, fn, 0)
    \/ \E x \in Contexts : InvokeAsync(x)
    \/ \E x \in Contexts : InvokeSync(x, 0)
    \/ \E x \in Contexts : Notify(x)

SpecRR == Init /\ [][NextRR]_vars

\* any service, used by callers that make one call after the other
InitSync ==
    /\ flags \in SUBSET SERVICE_CONFIG_FLAGS
    /\ refs = 0
    /\ clients = <<>>
    /\ releaser = NULL
    /\ has_reset \in BOOLEAN
    /\ result = [c \in Clients |-> 0]
    /\ work = [x \in Contexts |-> <<>>]
    /\ nowait_call = [x \in Contexts |-> FALSE]
    /\ inflight = [t \in Transitions |-> 0]
    /\ pend = [c \in Clients |-> "none"]
    /\ held = 0
    /\ cancelled = {}
    /\ budget = MaxCallsSync
    /\ last = Event("init", "thread", NULL, 0, TRUE, TRUE)

\* a request, or a release, made when every earlier call has returned
RequestAtRest(x, c) == (\A y \in Contexts : work[y] = <<>>) /\ Request(x, c)

ReleaseAtRest(x, c) == (\A y \in Contexts : work[y] = <<>>) /\ Release(x, c)

\* request and release calls made one after the other, with start and stop
\* functions that notify success before they return
NextSync ==
    \/ \E x \in Contexts, c \in Clients : RequestAtRest(x, c)
    \/ \E x \in Contexts, c \in Clients : ReleaseAtRest(x, c)
    \/ \E x \in Contexts : InvokeSync(x, 0)
    \/ \E x \in Contexts : Notify(x)

SpecSync == InitSync /\ [][NextSync]_vars

\* z_impl_onoff_request called with a client the service still owns from an
\* earlier call that has not been notified.  Nothing in validate_args or under
\* the lock looks at that.  The node of the client is not linked in
\* srv->clients: appending a linked node is not explored.
RequestOwned(x, c) ==
    /\ work[x] = <<>>
    /\ budget > 0
    /\ pend[c] # "none"
    /\ ~InList(clients, c)
    /\ LET d == request_locked(flags, refs, releaser, NoWait(c), k_is_in_isr(x))
           w == IF d.start THEN <<OpCall("start")>>
                ELSE IF d.notify THEN <<OpNotify(c, 0)>>
                ELSE <<>>
       IN /\ flags' = d.flags
          /\ clients' = IF d.add_client THEN Append(clients, c) ELSE clients
          /\ refs' = IF ~d.add_client /\ d.notify THEN U16(refs + 1) ELSE refs
          /\ result' = [result EXCEPT ![c] = 0]
          /\ pend' = [pend EXCEPT ![c] = IF d.rv >= 0 THEN "request" ELSE @]
          /\ cancelled' = IF d.rv >= 0 THEN cancelled \ {c} ELSE cancelled
          /\ SetCall(x, c, w)
          /\ last' = Event("request", x, c, d.rv, d.asrt, TRUE)
    /\ budget' = budget - 1
    /\ UNCHANGED <<releaser, has_reset, inflight, held>>

\* z_impl_onoff_release called with a client the service still owns
ReleaseOwned(x, c) ==
    /\ work[x] = <<>>
    /\ budget > 0
    /\ pend[c] # "none"
    /\ LET d == release_locked(flags, refs, NoWait(c), k_is_in_isr(x))
           w == IF d.start THEN <<OpCall("stop")>>
                ELSE IF d.notify THEN <<OpNotify(c, 0)>>
                ELSE <<>>
       IN /\ flags' = d.flags
          /\ releaser' = IF d.start THEN c ELSE releaser
          /\ refs' = IF d.notify THEN U16(refs - 1) ELSE refs
          /\ result' = [result EXCEPT ![c] = 0]
          /\ pend' = [pend EXCEPT ![c] = IF d.rv >= 0 THEN "release" ELSE @]
          /\ SetCall(x, c, w)
          /\ last' = Event("release", x, c, d.rv, d.asrt, TRUE)
    /\ budget' = budget - 1
    /\ UNCHANGED <<clients, has_reset, inflight, held, cancelled>>

\* a service without flags and without reset, and callers that do not keep
\* the ownership protocol of struct onoff_client
InitOwned ==
    /\ flags = {}
    /\ refs = 0
    /\ clients = <<>>
    /\ releaser = NULL
    /\ has_reset = FALSE
    /\ result = [c \in Clients |-> 0]
    /\ work = [x \in Contexts |-> <<>>]
    /\ nowait_call = [x \in Contexts |-> FALSE]
    /\ inflight = [t \in Transitions |-> 0]
    /\ pend = [c \in Clients |-> "none"]
    /\ held = 0
    /\ cancelled = {}
    /\ budget = MaxCallsOwned
    /\ last = Event("init", "thread", NULL, 0, TRUE, TRUE)

NextOwned ==
    \/ \E x \in Contexts, c \in Clients : Request(x, c)
    \/ \E x \in Contexts, c \in Clients : RequestOwned(x, c)
    \/ \E x \in Contexts, c \in Clients : Release(x, c)
    \/ \E x \in Contexts, c \in Clients : ReleaseOwned(x, c)
    \/ \E x \in Contexts, fn \in Transitions : Complete(x, fn, 0)
    \/ \E x \in Contexts : InvokeAsync(x)
    \/ \E x \in Contexts : InvokeSync(x, 0)
    \/ \E x \in Contexts : Notify(x)

SpecOwned == InitOwned /\ [][NextOwned]_vars

----------------------------------------------------------------------------
(* Derived notions used by the properties *)

Off == State = SERVICE_STATE_OFF
On == State = SERVICE_STATE_ON
\* the TRANSITION bit of a service in error marks a reset in progress
Starting == State = SERVICE_STATE_TO_ON /\ ~HasError
Stopping == State = SERVICE_STATE_TO_OFF /\ ~HasError

\* transition function invocations whose completion has not been delivered
Outstanding == inflight["start"] + inflight["stop"] + inflight["reset"]

\* the notifications context x still has to deliver
PendingNotify(x) == {i \in 1..Len(work[x]) : work[x][i].k = "notify"}

\* the notifications for client c that context x still has to deliver
Pending(x, c) == Cardinality({i \in PendingNotify(x) : work[x][i].cli = c})

\* the places where the service holds client c for a later notification
Holds(c) ==
    Cardinality({i \in 1..Len(clients) : clients[i] = c})
    + (IF releaser = c THEN 1 ELSE 0)
    + Pending("thread", c) + Pending("isr", c)

\* the invocations of fn that context x is about to make
Calls(x, fn) == Cardinality({i \in 1..Len(work[x]) : work[x][i] = OpCall(fn)})

\* start invocations made or about to be made whose completion is not delivered
StartsPending == inflight["start"] + Calls("thread", "start") + Calls("isr", "start")

\* stop invocations made or about to be made whose completion is not delivered
StopsPending == inflight["stop"] + Calls("thread", "stop") + Calls("isr", "stop")

\* no context is inside a call: every call made so far has returned
NoCallInProgress == \A x \in Contexts : work[x] = <<>>

\* the step is a completion of start that finds the service Starting
StartResolves == last'.op = "start_notify" /\ Starting

\* the step notifies exactly the queued clients, each with the result delivered
NotifiesWaiters ==
    /\ SubSeq(work'[last'.ctx], 1, Len(clients)) = NotifyAll(clients, last'.val)
    /\ clients' = <<>>

----------------------------------------------------------------------------
(* Properties *)

\* C1: in every reachable state refs == 0 while the service is Off or Starting,
\* and refs >= 1 while it is On without error.
C1_RefsMatchState ==
    /\ (Off \/ Starting) => refs = 0
    /\ (On /\ ~HasError) => refs >= 1

\* C2: at most one transition function invocation is outstanding at any time;
\* a start is pending only for a service that left Off for Starting, a stop
\* only for one that left On for Stopping.
C2_OneTransitionOutstanding ==
    /\ Outstanding <= 1
    /\ (StartsPending > 0 /\ ~HasError) => Starting
    /\ (StopsPending > 0 /\ ~HasError) => Stopping

\* C3: a client is notified only for a call that was accepted and not yet
\* notified, the service never holds a client for more than one notification,
\* and it holds no client whose call was rejected or already notified.
C3_NotifiedAtMostOnce ==
    /\ last.op = "notify" => last.owned
    /\ \A c \in Clients : Holds(c) <= 1
    /\ \A c \in Clients : pend[c] = "none" => Holds(c) = 0

\* C3 witness: a client is notified of a cancellation while the completion of
\* the transition it waited for is still to come.
C3_Witness ==
    /\ last.op = "notify" /\ last.val = -ECANCELED /\ last.owned
    /\ inflight["start"] = 1
    /\ clients # <<>>

\* C4: every accepted client is eventually notified. A finite run refutes it
\* by reaching a state where an accepted client that was not notified is no
\* longer held by the service, in the waiters, as releaser or in a notification
\* being delivered: no completion can notify it any more.
C4_AcceptedClientHeld == \A c \in Clients : pend[c] # "none" => Holds(c) >= 1

\* C5 (as stated): between the calls of a sequence of requests and releases
\* that never fail, refs equals the number of successful requests not yet
\* released, and the service is On exactly when refs > 0.
C5_RefsCountOnIffHeld ==
    NoCallInProgress => refs = held /\ (On <=> refs > 0)

\* C5 (amended): the same, with refs > 0 exactly when the service is On or
\* Stopping; the reference of the releaser is dropped when its stop completes.
C5_RefsCountOnOrStopping ==
    NoCallInProgress => refs = held /\ ((On \/ Stopping) <=> refs > 0)

\* C5 witness: the last reference was released, the stop is in flight and the
\* release call has returned.
C5_Witness ==
    /\ NoCallInProgress
    /\ Stopping /\ refs = 1 /\ held = 1
    /\ releaser # NULL /\ inflight["stop"] = 1

\* C6: while the service is Starting exactly one start is pending however many
\* clients request; when it resolves every queued client is notified with its
\* result, and after a success refs is the number of those clients and the
\* service is On.
C6_SharedStart ==
    [][/\ Starting' => StartsPending' = 1
       /\ StartResolves => NotifiesWaiters
       /\ (StartResolves /\ last'.val >= 0) =>
              refs' = Len(clients) /\ State' = SERVICE_STATE_ON]_vars

\* the step is the decision of a request or a release call
CallDecided == last'.op \in {"request", "release"}

\* C7: has_error is set by every negative completion of start or stop and
\* cleared by nothing but a successful completion of reset; while it is set
\* every request and release returns -EIO, queues nothing, leaves refs alone
\* and invokes no transition function.
C7_ErrorRejectsCalls ==
    [][/\ (last'.op \in {"start_notify", "stop_notify"} /\ last'.val < 0)
              => HasError'
       /\ (HasError /\ ~HasError')
              => last'.op = "reset_notify" /\ last'.val >= 0
       /\ (HasError /\ CallDecided) =>
              /\ last'.val = -EIO
              /\ UNCHANGED <<srv, inflight>>
              /\ work'[last'.ctx] = <<>>
              /\ pend'[last'.cli] = "none"]_vars

\* C7 witness: a release was just rejected with -EIO by a service whose stop
\* failed.
C7_Witness ==
    /\ last.op = "release" /\ last.val = -EIO
    /\ HasError /\ refs > 0

\* C8: a successful reset leaves the service as it was constructed: has_error
\* clear, Off, refs == 0, no waiters, no releaser and no start or stop
\* outstanding, so that the next request is served by a start of its own.
C8_ResetRestoresFresh ==
    (last.op = "reset_notify" /\ last.val >= 0) =>
        /\ ~HasError /\ Off /\ refs = 0 /\ clients = <<>>
        /\ releaser = NULL
        /\ StartsPending = 0 /\ StopsPending = 0

\* the step is a cancel that finds its client queued, with others, on a
\* Starting service
CancelsWaiter ==
    last'.op = "cancel" /\ Starting /\ InList(clients, last'.cli) /\ Len(clients) > 1

\* C9: cancelling one of several requests queued during Starting returns 0,
\* removes that client alone and notifies it with -ECANCELED; when the start
\* then succeeds the cancelled client is not among those notified, the
\* remaining waiters are notified with the result and refs is their number.
C9_CancelWaiter ==
    [][/\ CancelsWaiter =>
              /\ last'.val = 0
              /\ clients' = find_and_remove(clients, last'.cli)
              /\ work'[last'.ctx] = <<OpNotify(last'.cli, -ECANCELED)>>
       /\ (StartResolves /\ last'.val >= 0 /\ cancelled # {} /\ clients # <<>>) =>
              /\ \A c \in cancelled : ~InList(clients, c)
              /\ NotifiesWaiters
              /\ refs' = Len(clients)]_vars

\* the step is a cancel that finds its client to be the releaser
CancelsReleaser ==
    last'.op = "cancel" /\ releaser = last'.cli /\ ~InList(clients, last'.cli)

\* the step is a successful completion of stop after the releaser was cancelled
StopResolvesCancelled ==
    last'.op = "stop_notify" /\ last'.val >= 0 /\ Stopping /\ releaser = NULL

\* C10: cancelling the releaser while its stop is in flight returns 0 and
\* notifies it with -ECANCELED; the successful completion of that stop leaves
\* the service Off with refs == 0, or Starting for the requests queued
\* meanwhile, without releaser or error; no assertion fails on the way.
C10_CancelReleaser ==
    [][/\ CancelsReleaser =>
              /\ last'.val = 0 /\ last'.asrt
              /\ work'[last'.ctx] = <<OpNotify(last'.cli, -ECANCELED)>>
       /\ StopResolvesCancelled =>
              /\ last'.asrt
              /\ refs' = 0 /\ releaser' = NULL /\ ~HasError'
              /\ Off' \/ Starting']_vars

\* the step is the decision of a request that may not wait, made on an Off
\* service whose start may block
NoWaitRequestOnBlockingOff ==
    /\ last'.op = "request"
    /\ Off /\ ~HasError /\ ONOFF_SERVICE_START_WAITS \in flags
    /\ NoWait(last'.cli) \/ k_is_in_isr(last'.ctx)

\* C11: on an Off service whose start may block, a request of a no-wait client
\* or from interrupt context returns -EWOULDBLOCK, leaves flags, refs, clients
\* and releaser as they were and invokes no transition function.
C11_NoWaitRequestRefused ==
    [][NoWaitRequestOnBlockingOff =>
           /\ last'.val = -EWOULDBLOCK
           /\ UNCHANGED <<srv, inflight>>
           /\ work'[last'.ctx] = <<>>]_vars

\* C11 witness: a no-wait client in thread context was just refused by an Off
\* service whose start may block.
C11_Witness ==
    /\ last.op = "request" /\ last.val = -EWOULDBLOCK
    /\ last.cli = "nw" /\ last.ctx = "thread"
    /\ Off /\ ~HasError /\ ONOFF_SERVICE_START_WAITS \in flags
    /\ refs = 0 /\ clients = <<>> /\ Outstanding = 0

\* C12: once the call made with a no-wait client has returned a non-negative
\* value its operation is complete: with no call in progress a no-wait client
\* is not waiting for a notification, is not queued and is not the releaser.
C12_NoWaitCompletesInCall ==
    NoCallInProgress =>
        \A c \in Clients : NoWait(c) =>
            /\ pend[c] = "none"
            /\ ~InList(clients, c)
            /\ releaser # c

\* the capability flag that says transition function fn may block
WaitsFlag(fn) ==
    CASE fn = "start" -> ONOFF_SERVICE_START_WAITS
      [] fn = "stop"  -> ONOFF_SERVICE_STOP_WAITS
      [] fn = "reset" -> ONOFF_SERVICE_RESET_WAITS

\* the step is context x calling transition function fn
Invokes(x, fn) ==
    /\ work[x] # <<>>
    /\ Head(work[x]) = OpCall(fn)
    /\ work'[x] # work[x]

\* C13: a transition function whose may-block flag is set is invoked neither
\* from interrupt context nor inside an API call made with a no-wait client.
C13_BlockingNeverFromNoWait ==
    [][\A x \in Contexts, fn \in Transitions :
           (Invokes(x, fn) /\ WaitsFlag(fn) \in flags) =>
               ~k_is_in_isr(x) /\ ~nowait_call[x]]_vars

\* a request was granted and its client is still to be told
GrantPending ==
    \E x \in Contexts : \E i \in 1..Len(work[x]) :
        /\ work[x][i].k = "notify" /\ work[x][i].res >= 0
        /\ pend[work[x][i].cli] = "request"

\* every successful request so far was matched by a release
NothingHeld == held <= 0 /\ ~GrantPending

\* C14: a release that no successful request matches returns an error, and
\* neither a release nor a stop completion wraps refs below zero.
C14_SurplusReleaseRefused ==
    [][/\ (last'.op = "release" /\ NothingHeld) => last'.val < 0
       /\ last'.op \in {"release", "stop_notify"} => refs' <= refs]_vars

\* C15: release returns -EBUSY while the service is Starting and -EALREADY
\* while it is Off or Stopping; it leaves flags, refs, clients and releaser as
\* they were, invokes no transition function and notifies nobody.
C15_ReleaseRefused ==
    [][(last'.op = "release" /\ ~HasError /\ ~On) =>
           /\ Starting => last'.val = -EBUSY
           /\ (Off \/ Stopping) => last'.val = -EALREADY
           /\ UNCHANGED <<srv, inflight>>
           /\ work'[last'.ctx] = <<>>
           /\ pend'[last'.cli] = "none"]_vars

\* C15 witness: a release was just refused with -EBUSY while a start is in
\* flight for a queued client.
C15_Witness ==
    /\ last.op = "release" /\ last.val = -EBUSY
    /\ Starting /\ clients # <<>> /\ inflight["start"] = 1

\* C16: a request made while the service is Starting or Stopping is appended
\* to the tail of clients and invokes no transition function; made with a
\* no-wait client it returns -EWOULDBLOCK and is not queued.
C16_RequestQueuedInTransition ==
    [][(last'.op = "request" /\ (Starting \/ Stopping)) =>
           /\ UNCHANGED <<flags, refs, releaser, inflight>>
           /\ work'[last'.ctx] = <<>>
           /\ IF NoWait(last'.cli)
              THEN last'.val = -EWOULDBLOCK /\ clients' = clients
              ELSE last'.val > 0 /\ clients' = Append(clients, last'.cli)]_vars

\* the step is a completion of start or stop with a negative result
TransitionFails ==
    last'.op \in {"start_notify", "stop_notify"} /\ last'.val < 0

\* the clients the service holds: the waiters and the releaser
HeldClients ==
    {clients[i] : i \in 1..Len(clients)} \cup ({releaser} \ {NULL})

\* the step leaves context x with the notification of client c with res to make
PostsNotify(x, c, res) ==
    \E i \in 1..Len(work'[x]) : work'[x][i] = OpNotify(c, res)

\* C17: a negative completion of start or stop sets has_error, notifies every
\* queued client and the releaser with that result and leaves clients empty
\* and the releaser clear.
C17_FailureNotifiesAll ==
    [][TransitionFails =>
           /\ HasError'
           /\ \A c \in HeldClients : PostsNotify(last'.ctx, c, last'.val)
           /\ clients' = <<>>
           /\ releaser' = NULL]_vars

\* the step is the entry of a cancel for a client whose operation has been
\* notified and which the service no longer holds: the cancel will return
\* -EALREADY
CancelsCompleted ==
    /\ last'.op = "cancel_enter"
    /\ pend[last'.cli] = "none" /\ Holds(last'.cli) = 0

\* C18: a cancel that returns -EALREADY because the operation of its client
\* had completed leaves cli->result as the completion left it.
C18_FailedCancelKeepsResult ==
    [][/\ CancelsCompleted => result'[last'.cli] = result[last'.cli]
       /\ (last'.op = "cancel" /\ last'.val = -EALREADY) =>
              result'[last'.cli] = result[last'.cli]]_vars

\* notifications of client c that some context still has to deliver
Deliveries(c) == Pending("thread", c) + Pending("isr", c)

\* the step is the locked part of a cancel for a client whose operation was
\* accepted and has not been notified yet
CancelRaces == last'.op = "cancel" /\ pend[last'.cli] # "none"

\* C19: a cancel of an operation not yet notified either returns 0, and then
\* the one notification of its client is -ECANCELED, made by the cancelling
\* context before it returns, or it returns -EALREADY, and then the one
\* notification of its client is that of the transition, being delivered.
C19_CancelResolvesOneWay ==
    [][\A c \in Clients : (CancelRaces /\ last'.cli = c) =>
           /\ last'.val \in {0, -EALREADY}
           /\ last'.val = 0 =>
                  /\ work'[last'.ctx] = <<OpNotify(c, -ECANCELED)>>
                  /\ Holds(c)' = 1
           /\ last'.val = -EALREADY =>
                  /\ work'[last'.ctx] = <<>>
                  /\ Deliveries(c)' = 1
                  /\ Holds(c)' = 1]_vars

\* the step belongs to a cancel call: its entry or its part under the lock
CancelStep == last'.op \in {"cancel_enter", "cancel"}

\* C20: a cancel, whatever it returns, leaves the state bits and has_error as
\* they were and invokes no transition function; the transitions in flight stay
\* in flight for their completion.
C20_CancelLeavesTransition ==
    [][CancelStep =>
           /\ flags' = flags
           /\ inflight' = inflight
           /\ \A x \in Contexts, fn \in Transitions :
                  last'.ctx = x => Calls(x, fn)' = 0]_vars

\* C20 witness: a cancel just removed the only waiter of a start that is still
\* in flight.
C20_Witness ==
    /\ last.op = "cancel" /\ last.val = 0
    /\ Starting /\ clients = <<>> /\ inflight["start"] = 1

\* a reset is in progress: the TRANSITION bit of a service in error
Resetting == HasError /\ SERVICE_STATE_TRANSITION \subseteq flags

\* reset invocations made or about to be made whose completion is not delivered
ResetsPending == inflight["reset"] + Calls("thread", "reset") + Calls("isr", "reset")

\* the clients of accepted reset calls that wait in the list
ResetWaiters == {c \in Clients : InList(clients, c) /\ pend[c] = "reset"}

\* C21: while a reset is in progress exactly one invocation of reset() is
\* pending, however many reset calls are accepted; each of them only queues its
\* client, and the clients queued for the reset are notified by the completion
\* of that reset, with its result, and by no other completion.
C21_ResetsCoalesced ==
    [][/\ Resetting' => ResetsPending' = 1
       /\ (last'.op = "reset" /\ last'.val >= 0 /\ Resetting) =>
              /\ clients' = Append(clients, last'.cli)
              /\ work'[last'.ctx] = <<>>
       /\ last'.op = "reset_notify" => NotifiesWaiters
       /\ last'.op \in {"start_notify", "stop_notify"} => ResetWaiters = {}]_vars

\* the step is a reset call that returns without touching the service
ResetLeavesService ==
    /\ UNCHANGED <<srv, inflight>>
    /\ work'[last'.ctx] = <<>>
    /\ pend'[last'.cli] = "none"

\* the reset call of this step is made where it may not wait, on a service
\* whose reset may block
ResetWouldBlock ==
    /\ NoWait(last'.cli) \/ k_is_in_isr(last'.ctx)
    /\ ONOFF_SERVICE_RESET_WAITS \in flags

Resubmits == last'.op \in {"request", "release"} /\ pend[last'.cli] # "none"

\* C23: a request or release made with a client the service still owns is
\* rejected with -EBUSY or -EINVAL and leaves flags, refs, clients and releaser
\* as they were; the list of waiters never holds a client twice.
C23_OwnedClientRejected ==
    [][/\ Resubmits =>
              /\ last'.val \in {-EBUSY, -EINVAL}
              /\ UNCHANGED <<srv, inflight>>
              /\ work'[last'.ctx] = <<>>
       /\ \A c \in Clients :
              Cardinality({i \in 1..Len(clients') : clients'[i] = c}) <= 1]_vars

\* the step is the decision of a request made while refs is at its maximum
RequestAtMaxRefs == last'.op = "request" /\ ~HasError /\ refs = UINT16_MAX

\* the step is one that adds references: a request, or a start completion
AddsRefs == last'.op \in {"request", "start_notify"}

\* C24: refs never wraps: a request made while refs is at its maximum returns
\* -EAGAIN and changes nothing, and no request and no start completion, which
\* adds one reference per queued client, takes refs past the maximum back to
\* a smaller value.
C24_RefsNeverWrap ==
    [][/\ RequestAtMaxRefs =>
              /\ last'.val = -EAGAIN
              /\ UNCHANGED <<srv, inflight>>
              /\ work'[last'.ctx] = <<>>
       /\ AddsRefs => refs' >= refs
       /\ (last'.op = "start_notify" /\ last'.val >= 0) =>
              refs' = refs + Len(clients)]_vars

\* the step is the decision of an API call that returns a negative value
CallRejected ==
    last'.op \in {"request", "release", "reset", "cancel"} /\ last'.val < 0

\* the step changes nothing of the service, invokes nothing and returns
CallLeavesService ==
    /\ UNCHANGED <<srv, inflight>>
    /\ work'[last'.ctx] = <<>>

InvokesStartOrStop ==
    \E x \in Contexts, fn \in {"start", "stop"} : Invokes(x, fn)

\* C26: once set, has_error stays set until a completion of reset with a
\* non-negative result; on a service without reset function it stays set for
\* ever and neither start nor stop is called again.
C26_ErrorStaysUntilReset ==
    [][/\ (HasError /\ ~HasError') =>
              last'.op = "reset_notify" /\ last'.val >= 0
       /\ (HasError /\ ~has_reset) => HasError' /\ ~InvokesStartOrStop]_vars

\* the places of the notifications of client c in the calls w
NotifyPlaces(w, c) == {i \in 1..Len(w) : w[i].k = "notify" /\ w[i].cli = c}

\* in the calls w every client of list is notified, in the order of list
NotifiedInOrder(w, list) ==
    /\ \A i \in 1..Len(list) : NotifyPlaces(w, list[i]) # {}
    /\ \A i, j \in 1..Len(list) :
           i < j => \A p \in NotifyPlaces(w, list[i]),
                       q \in NotifyPlaces(w, list[j]) : p < q

\* the first n of the calls w, or all of them when they are fewer
FirstCalls(w, n) == SubSeq(w, 1, IF Len(w) < n THEN Len(w) ELSE n)

\* the step is a completion of a transition function
Completes == last'.op \in {"start_notify", "stop_notify", "reset_notify"}

\* the step is an accepted request or reset that queues its client
QueuesClient ==
    /\ last'.op \in {"request", "reset"}
    /\ InList(clients', last'.cli)

\* C27: the clients queued on a transition are notified in the order in which
\* their calls were accepted: an accepted call appends its client behind those
\* queued before; the completion either keeps the list as it is for the next
\* transition or hands all of it over to be notified in list order, ahead of
\* whatever the context does next; and a context delivers its notifications
\* one by one in that order.
C27_WaitersNotifiedInOrder ==
    [][/\ QueuesClient => clients' = Append(clients, last'.cli)
       /\ Completes =>
              \/ clients' = clients
              \/ /\ clients' = <<>>
                 /\ NotifiedInOrder(FirstCalls(work'[last'.ctx], Len(clients) + 1),
                                    clients)
       /\ last'.op = "notify" =>
              /\ Head(work[last'.ctx]) = OpNotify(last'.cli, last'.val)
              /\ work'[last'.ctx] = Tail(work[last'.ctx])
       /\ (last'.op = "cancel" /\ InList(clients, last'.cli)) =>
              clients' = find_and_remove(clients, last'.cli)]_vars

\* C27 witness: of two clients granted by one start the first has just been
\* notified and the second is next.
C27_Witness ==
    /\ last.op = "notify" /\ last.val = 0 /\ last.owned
    /\ work[last.ctx] # <<>> /\ Head(work[last.ctx]).k = "notify"
    /\ Head(work[last.ctx]).cli # last.cli
    /\ pend[Head(work[last.ctx]).cli] = "request"
    /\ On /\ refs = 2

\* the step notifies the client of the request decided by the step before,
\* which was granted at once because the service was On
FastPathNotified ==
    /\ last.op = "request" /\ last.val = 0
    /\ last'.op = "notify" /\ last'.ctx = last.ctx /\ last'.cli = last.cli

\* context y is in the notify_all of a successful completion and has not yet
\* told the first of several clients whose request it granted
GrantsUndelivered(y) ==
    /\ Len(work[y]) >= 2
    /\ work[y][1].k = "notify" /\ work[y][1].res >= 0
    /\ pend[work[y][1].cli] = "request"

\* C28 (as stated): a request granted on the On fast path is not notified before the
\* clients that were queued on the start that turned the service On, also when
\* it is made between the unlock of the start completion and its notify_all.
C28_FastPathAfterWaiters ==
    [][FastPathNotified =>
           \A y \in Contexts \ {last'.ctx} : ~GrantsUndelivered(y)]_vars

\* the step is a request granted at once: it returns 0 and is about to notify
FastPathGrant == last'.op = "request" /\ last'.val = 0

\* C28 (amended): a request is granted on the fast path only when the state is
\* On under the lock; while the service is Starting a request is never granted
\* at once: it posts no notification and, when accepted, is queued behind the
\* clients queued before.  A request made after the start completion dropped
\* the lock may be notified before the waiters of that start.
C28_FastPathOnlyWhenOn ==
    [][/\ FastPathGrant =>
              /\ State = SERVICE_STATE_ON /\ ~HasError
              /\ refs' = refs + 1 /\ clients' = clients
              /\ work'[last'.ctx] = <<OpNotify(last'.cli, 0)>>
       /\ (last'.op = "request" /\ Starting) =>
              /\ last'.val # 0
              /\ work'[last'.ctx] = <<>>
              /\ last'.val > 0 => clients' = Append(clients, last'.cli)]_vars

\* C28 witness: a no-wait request made between the unlock of the start
\* completion and its notify_all has been notified, and the two clients queued
\* on that start are still to be told.
C28_Witness ==
    /\ last.op = "notify" /\ last.val = 0 /\ NoWait(last.cli)
    /\ On /\ refs = 3
    /\ \E y \in Contexts \ {last.ctx} : GrantsUndelivered(y)

\* the steps that run between k_spin_lock and k_spin_unlock: the locked part
\* of an API call and of a completion
LockHeld(op) ==
    op \in {"request", "release", "reset", "cancel",
            "start_notify", "stop_notify", "reset_notify"}

\* the step delivers no notification and calls no transition function: no
\* pending operation is completed and no invocation is added
NoCallMade ==
    /\ held' = held
    /\ \A c \in Clients : pend[c] # "none" => pend'[c] = pend[c]
    /\ \A fn \in Transitions : inflight'[fn] <= inflight[fn]

AsInitialized ==
    /\ Off /\ ~HasError
    /\ refs = 0 /\ clients = <<>> /\ releaser = NULL
    /\ Outstanding = 0

\* C30: with start and stop that succeed synchronously and calls made one
\* after the other, after as many releases as requests were granted the
\* service is exactly as initialized; as long as fewer were released it is On
\* without error with one reference per request still held, so that every
\* release can be served; and stop is called only by the release of the last
\* reference.
C30_RoundTrip ==
    /\ NoCallInProgress =>
           /\ refs = held
           /\ held = 0 => AsInitialized
           /\ held > 0 => On /\ ~HasError
    /\ \A x \in Contexts :
           (work[x] # <<>> /\ Head(work[x]) = OpCall("stop")) =>
               /\ last.op = "release" /\ last.ctx = x
               /\ refs = 1 /\ held = 1 /\ releaser = last.cli

\* the step is the decision of a release that may not wait, made on a service
\* that is On without error and whose stop may block
NoWaitReleaseOnBlockingOn ==
    /\ last'.op = "release"
    /\ On /\ ~HasError /\ ONOFF_SERVICE_STOP_WAITS \in flags
    /\ NoWait(last'.cli) \/ k_is_in_isr(last'.ctx)

\* C31: on a service whose stop may block, a release by a no-wait client or
\* from interrupt context returns -EWOULDBLOCK when it would drop the last
\* reference, leaving the service On with refs == 1 and stop not called; with
\* refs > 1 it succeeds, drops one reference and notifies its client.
C31_NoWaitFinalReleaseRefused ==
    [][NoWaitReleaseOnBlockingOn =>
           /\ refs = 1 =>
                  /\ last'.val = -EWOULDBLOCK
                  /\ UNCHANGED <<srv, inflight>>
                  /\ work'[last'.ctx] = <<>>
           /\ refs > 1 =>
                  /\ last'.val >= 0
                  /\ refs' = refs - 1
                  /\ UNCHANGED <<flags, clients, releaser, inflight>>
                  /\ work'[last'.ctx] = <<OpNotify(last'.cli, 0)>>]_vars

\* C31 witness: the final release of a no-wait client was just refused by a
\* service whose stop may block and which holds one reference.
C31_Witness ==
    /\ last.op = "release" /\ last.val = -EWOULDBLOCK /\ NoWait(last.cli)
    /\ ONOFF_SERVICE_STOP_WAITS \in flags
    /\ On /\ ~HasError /\ refs = 1 /\ held = 1 /\ Outstanding = 0

\* the step is a successful completion of start that finds no client queued
EmptyStartSucceeds == StartResolves /\ last'.val >= 0 /\ clients = <<>>

\* the step is the successful completion of a stop that the start completion
\* called: the state is still On and no release recorded a releaser
OwnerlessStopSucceeds ==
    /\ last'.op = "stop_notify" /\ last'.val >= 0
    /\ On /\ ~HasError /\ releaser = NULL

\* C32: a start that succeeds with no client queued calls stop exactly once and
\* leaves has_error clear when stop may not block, and once that stop
\* completes the service is Off with refs == 0; has_error is raised, and stop
\* not called, only when stop may block.
C32_EmptyStartStops ==
    [][/\ EmptyStartSucceeds =>
              IF ONOFF_SERVICE_STOP_WAITS \in flags
              THEN /\ HasError'
                   /\ StopsPending' = StopsPending
              ELSE /\ ~HasError'
                   /\ StopsPending' = StopsPending + 1
       /\ OwnerlessStopSucceeds => Off' /\ refs' = 0 /\ ~HasError']_vars

\* the step is a successful completion of start that finds clients queued
WaitedStartSucceeds == StartResolves /\ last'.val >= 0 /\ clients # <<>>

\* C33: a start that succeeds with clients queued leaves the service On with
\* has_error clear and refs equal to the number of clients notified, whatever
\* the context of the completion and the capability flags.
C33_WaitedStartTurnsOn ==
    [][WaitedStartSucceeds =>
           /\ ~HasError'
           /\ On'
           /\ refs' = Len(clients)]_vars

\* the step is a successful completion of stop that finds clients queued
StopSucceedsWithWaiters ==
    /\ last'.op = "stop_notify" /\ last'.val >= 0
    /\ clients # <<>> /\ ~HasError

\* what the completion of stop passes to the releaser, if there is one
ReleaserNotice(res) ==
    IF releaser # NULL THEN <<OpNotify(releaser, res)>> ELSE <<>>

\* C34: a stop that succeeds while requests are queued notifies the releaser
\* first; then it calls start, the only start then pending, and keeps the
\* clients queued, unless it runs in interrupt context with start allowed to
\* block: then the clients are notified of -EWOULDBLOCK and the service is Off
\* with refs == 0 and has_error clear.
C34_StopRestarts ==
    [][StopSucceedsWithWaiters =>
           LET x == last'.ctx
               first == ReleaserNotice(last'.val)
           IN  IF k_is_in_isr(x) /\ ONOFF_SERVICE_START_WAITS \in flags
               THEN /\ FirstCalls(work'[x], Len(first) + Len(clients))
                           = first \o NotifyAll(clients, -EWOULDBLOCK)
                    /\ clients' = <<>>
                    /\ StartsPending' = StartsPending
                    /\ Off' /\ refs' = 0 /\ ~HasError'
               ELSE /\ FirstCalls(work'[x], Len(first) + 1)
                           = first \o <<OpCall("start")>>
                    /\ clients' = clients
                    /\ StartsPending' = 1
                    /\ ~HasError']_vars

\* C35 as stated: a start or stop completion that reports failure does not
\* modify refs.
C35_FailedCompletionKeepsRefs ==
    [][TransitionFails => refs' = refs]_vars

\* C35 amended: a failed start completion does not modify refs; a failed stop
\* completion removes the reference of the releaser, if one is recorded, and
\* does not modify refs otherwise.
C35_FailedStopDropsReleaser ==
    [][TransitionFails =>
           refs' = IF last'.op = "stop_notify" /\ releaser # NULL
                   THEN U16(refs - 1)
                   ELSE refs]_vars

\* a stop has failed, the releaser is about to be told and its reference is gone
C35_Witness ==
    /\ last.op = "stop_notify" /\ last.val < 0
    /\ HasError /\ refs = 0 /\ releaser = NULL
    /\ \E c \in Clients :
           /\ pend[c] = "release"
           /\ work[last.ctx] # <<>>
           /\ Head(work[last.ctx]) = OpNotify(c, last.val)

\* the step is a completion of reset that reports failure
ResetFails == last'.op = "reset_notify" /\ last'.val < 0

\* the step is a reset call accepted while no reset is in progress
ResetCalledAtRest ==
    /\ last'.op = "reset" /\ last'.val >= 0
    /\ HasError /\ ~Resetting

\* C36: a reset that completes with a negative result leaves has_error set,
\* the on/off state and refs as they were, notifies every queued client of the
\* result and clears the reset-in-progress marker, so that the next reset call
\* accepted invokes reset() again.
C36_FailedResetKeepsError ==
    [][/\ ResetFails =>
              /\ HasError'
              /\ (SERVICE_STATE_ON \subseteq flags') = (SERVICE_STATE_ON \subseteq flags)
              /\ refs' = refs
              /\ FirstCalls(work'[last'.ctx], Len(clients))
                     = NotifyAll(clients, last'.val)
              /\ clients' = <<>>
              /\ ~Resetting'
       /\ ResetCalledAtRest => ResetsPending' = ResetsPending + 1]_vars

\* the step is a request made while the service is stopping and queued for the
\* restart
RequestQueuedOnStop ==
    last'.op = "request" /\ last'.val = 3 /\ Stopping

\* C37: after every step releaser is set exactly when the service is Stopping;
\* it is NULL when a start completion is processed and set when a request is
\* queued in the Stopping state, as the two assertions on releaser require.
C37_ReleaserIffStopping ==
    [][/\ (releaser' # NULL) <=> Stopping'
       /\ last'.op = "start_notify" => releaser = NULL
       /\ RequestQueuedOnStop => releaser # NULL]_vars

\* C38: refs is 0 right after every completion of stop, whichever call
\* initiated the stop and whatever request, release and cancel calls ran
\* meanwhile, and refs is 1 whenever the releaser is cancelled: the assertions
\* of the stop completion and of cancel hold.
C38_StopLeavesNoReference ==
    [][/\ last'.op = "stop_notify" => refs' = 0 /\ last'.asrt
       /\ CancelsReleaser => refs = 1 /\ last'.asrt]_vars

\* the step is a successful completion of reset
ResetSucceeds == last'.op = "reset_notify" /\ last'.val >= 0

\* C39: has_error is never set together with refs > 0, so that a reset which
\* completes successfully finds refs == 0, as its assertion requires, and takes
\* no reference away from a client whose request succeeded.
C39_NoReferenceInError ==
    [][/\ HasError' => refs' = 0
       /\ ResetSucceeds => refs = 0 /\ last'.asrt]_vars

====
